---- MODULE Spec2Model ----
(***************************************************************************)
(* A state-machine model of src/udp_wrap.cc: the UDP socket wrapper that   *)
(* sits between the JavaScript layer and libuv.                            *)
(*                                                                         *)
(* One action per handler of the wrapper.  The handlers run on the single  *)
(* event-loop thread, so every handler is one atomic step.  A JavaScript   *)
(* callback started by MakeCallback may itself call send, recvStop, ...;   *)
(* those nested calls touch neither the request being completed nor the    *)
(* read being delivered, so they are modelled as the steps that follow.    *)
(*                                                                         *)
(* libuv, the slab allocator, HandleWrap::Close, SetErrno and AddressToJS  *)
(* are not part of udp_wrap.cc.  They are modelled from the design         *)
(* document, as operators that give the outcomes a call can have.          *)
(*                                                                         *)
(* The sending half (send, OnSend) and the receiving half (recvStart,      *)
(* recvStop, OnAlloc, OnRecv) share the sockets, close and the last error  *)
(* and nothing else.  Each half has its own specification, with close in   *)
(* both: SendSpec and RecvSpec.                                            *)
(***************************************************************************)
EXTENDS Integers, FiniteSets, Sequences, TLC

\* ------------------------------------------------------------------ bounds

\* SendWrap objects created in one run (calls of send that pass the asserts).
MaxSends == 2

\* Read events (OnAlloc followed by OnRecv) in one run.
MaxRecvs == 2

\* ------------------------------------------------------- program constants

SLAB_SIZE == 1048576

\* The two wrappers of the model.
Socks == {"A", "B"}

\* Buffer objects the application passes to send, with Buffer::Length.
Buffers == {"b1", "b2"}

BufferLength(b) == IF b = "b1" THEN 1 ELSE 2

\* Values of the offset and length arguments of send.
ArgRange == 0..2

Families == {"AF_INET", "AF_INET6"}

\* Error codes libuv reports (uv_err_t.code).
OsErrs == {"UV_EINVAL", "UV_ECONNREFUSED"}

\* The error libuv reports for a bind to a family other than the one the handle
\* is bound to.
BIND_CONFLICT == "UV_EINVAL"

\* Addresses (host, port and flags) a bind can ask for.
BindAddresses == {"0.0.0.0:41234", "127.0.0.1:41235"}

\* The methods the X macro defines.
OptionNames == {"setTTL", "setBroadcast", "setMulticastTTL", "setMulticastLoopback"}

\* uv_membership.
Memberships == {"UV_JOIN_GROUP", "UV_LEAVE_GROUP"}

\* Values of the flag argument of the X methods.
Flags == {0, 1}

\* Sizes libuv suggests to the allocation callback.
SuggestedSizes == {65536, SLAB_SIZE}

\* Wire addresses a datagram can come from; the port is in network byte order.
Peers == {[sa_family |-> "AF_INET", host |-> <<127, 0, 0, 1>>, port |-> 4660]}

\* Byte counts a read of a buffer of len bytes can report: an error, an empty
\* read, one byte, a full buffer.
NReads(len) == {-1, 0, 1, len}

ReqIds == 1..MaxSends

\* ------------------------------------------------------------------- state

VARIABLES
  proc,         \* "running", or "aborted" once an assert has failed
  failed,       \* the assert that aborted the process, with the call's arguments
  handles,      \* per socket: the uv_udp_t and its wrapper
  reqs,         \* per SendWrap created: what it was created for and its history
  nreqs,        \* SendWrap objects created so far
  live,         \* SendWrap objects created and not yet deleted
  uv_sendq,     \* libuv: requests whose send started and whose callback is due
  uv_last_err,  \* libuv: the loop's last error (uv_last_error)
  errno,        \* the process-wide last error of the wrapper layer (SetErrno)
  ret,          \* the last call from JavaScript and what it returned
  oncomplete,   \* the last send-completion notification delivered
  rd,           \* the read in progress between OnAlloc and OnRecv
  nrecv,        \* read events started so far
  ev,           \* the last receive event OnRecv handled
  nmsgs,        \* receive notifications (onmessage) delivered so far
  onmessage,    \* the last receive notification delivered
  pool,         \* the slab pool: write offset and live regions
  stopped,      \* per socket: recvStop returned 0 and recvStart has not succeeded since
  binding,      \* libuv, per socket: the family and address a bind gave the handle
  scenario      \* the operations the application uses in this run, "any" for no limit

vars == <<proc, failed, handles, reqs, nreqs, live, uv_sendq, uv_last_err, errno,
          ret, oncomplete, rd, nrecv, ev, nmsgs, onmessage, pool, stopped, binding,
          scenario>>

sendVars == <<reqs, nreqs, live, uv_sendq, oncomplete>>
recvVars == <<rd, nrecv, ev, nmsgs, onmessage, pool, stopped>>

Unbound == [family |-> "-", address |-> "-"]
NoFailure == [assert |-> "none", buf |-> "-", offset |-> 0, length |-> 0]
NoReq == [sock |-> "-", payload |-> "-", handle |-> "-", buffer |-> "-",
          started |-> FALSE, ncomplete |-> 0, ndelete |-> 0]
NoCompletion == [status |-> 0, sock |-> "-", req |-> 0, buffer |-> "-",
                 errno |-> "-", uv_err |-> "UV_OK", state |-> "-"]
NoRead == [sock |-> "-", base |-> [buf |-> 0, off |-> 0], len |-> 0]
NoPeer == [sa_family |-> "-", host |-> <<>>, port |-> 0]
NoAddress == [address |-> <<>>, family |-> "-", port |-> 0]
NoEvent == [n |-> 0, sock |-> "-", nread |-> 0, base |-> [buf |-> 0, off |-> 0],
            len |-> 0, shrink |-> 0, addr |-> NoPeer]
NoMessage == [argc |-> 0, sock |-> "-", slab |-> 0, offset |-> 0, length |-> 0,
              rinfo |-> NoAddress, errno |-> "-"]

\* The wrapper after construction of the sockets.
Start ==
  /\ proc = "running"
  /\ failed = NoFailure
  /\ handles = [s \in Socks |-> [state |-> "open", armed |-> FALSE]]
  /\ reqs = [i \in ReqIds |-> NoReq]
  /\ nreqs = 0
  /\ live = {}
  /\ uv_sendq = {}
  /\ uv_last_err = "UV_OK"
  /\ errno = "-"
  /\ ret = [op |-> "-", sock |-> "-", val |-> "-", req |-> 0]
  /\ oncomplete = NoCompletion
  /\ rd = NoRead
  /\ nrecv = 0
  /\ ev = NoEvent
  /\ nmsgs = 0
  /\ onmessage = NoMessage
  /\ pool = [offset |-> 0, live |-> {}]
  /\ stopped = [s \in Socks |-> FALSE]
  /\ binding = [s \in Socks |-> Unbound]

Init == Start /\ scenario = "any"

\* JavaScript and the event loop run a handler only when no handler is running:
\* OnAlloc and OnRecv of one read are called back to back by libuv.
Idle == proc = "running" /\ rd = NoRead

\* --------------------------------------------------------------- last error

\* uv_err_name: the name SetErrno stores for a libuv error code.
uv_err_name(code) ==
  CASE code = "UV_EINVAL" -> "EINVAL"
    [] code = "UV_ECONNREFUSED" -> "ECONNREFUSED"
    [] code = "UV_EALREADY" -> "EALREADY"
    [] code = "UV_OK" -> "OK"
    [] OTHER -> "UNKNOWN"

\* SetErrno(err): the new value of the last error.
SetErrno(err) == uv_err_name(err)

\* -------------------------------------------------------------------- libuv

\* uv_udp_send / uv_udp_send6: 0 and the request is queued, or -1 and the loop's
\* last error is set; a request that was not queued gets no callback.
uv_udp_send(family) ==
  {[r |-> 0, err |-> "UV_OK"]} \cup {[r |-> -1, err |-> e] : e \in OsErrs}

\* uv_udp_recv_start: EALREADY when the handle is already reading.
uv_udp_recv_start(h) ==
  IF h.armed
    THEN {[r |-> -1, err |-> "UV_EALREADY"]}
    ELSE {[r |-> 0, err |-> "UV_OK"]} \cup {[r |-> -1, err |-> e] : e \in OsErrs}

\* uv_udp_recv_stop.
uv_udp_recv_stop(h) ==
  {[r |-> 0, err |-> "UV_OK"]} \cup {[r |-> -1, err |-> e] : e \in OsErrs}

\* uv_last_error after a call with outcome o.
uv_last_error(o) == IF o.r # 0 THEN o.err ELSE uv_last_err

\* A call from JavaScript returned: what the caller sees.
Return(op, s, val, req) == [op |-> op, sock |-> s, val |-> val, req |-> req]

\* A failed assert: the process aborts and nothing runs after it.
Abort(which, b, offset, length) ==
  /\ proc' = "aborted"
  /\ failed' = [assert |-> which, buf |-> b, offset |-> offset, length |-> length]

\* --------------------------------------------------------------------- send

\* A delete that is left out: the SendWrap stays allocated.
delete_req_wrap_Leak(rq, lv, i) == [reqs |-> rq, live |-> lv]

\* delete req_wrap: the SendWrap i is destroyed.
delete_req_wrap(rq, lv, i) ==
  [reqs |-> [rq EXCEPT ![i].ndelete = @ + 1], live |-> lv \ {i}]

\* A DoSend that forgets SetErrno on the failure path.
SendFailed_NoSetErrno(created, i, s) ==
  LET d == delete_req_wrap(created, live \cup {i}, i)
  IN /\ errno' = errno
     /\ reqs' = d.reqs
     /\ live' = d.live
     /\ ret' = Return("send", s, "null", 0)

\* DoSend when uv_udp_send returned non-zero: the last error is set, the
\* request is deleted and null is returned.
SendFailed(created, i, s) ==
  LET d == delete_req_wrap(created, live \cup {i}, i)
  IN /\ errno' = SetErrno(uv_last_err')
     /\ reqs' = d.reqs
     /\ live' = d.live
     /\ ret' = Return("send", s, "null", 0)

\* DoSend when uv_udp_send returned 0: the request object is returned as the
\* handle of the send.
SendStarted(created, i, s) ==
  /\ errno' = errno
  /\ reqs' = created
  /\ live' = live \cup {i}
  /\ ret' = Return("send", s, "handle", i)

\* A DoSend without the assert on offset.
DoSend_NoOffsetAssert(s, b, offset, length, family) ==
  /\ Idle
  /\ handles[s].state = "open"
  /\ nreqs < MaxSends
  /\ family \in Families
  /\ IF ~(length <= BufferLength(b) - offset)
       THEN /\ Abort("length", b, offset, length)
            /\ ret' = Return("send", s, "abort", 0)
            /\ UNCHANGED <<handles, sendVars, uv_last_err, errno, recvVars, binding, scenario>>
     ELSE
       \E o \in uv_udp_send(family) :
         LET i == nreqs + 1
             req_wrap == [sock |-> s, payload |-> b, handle |-> s, buffer |-> b,
                          started |-> (o.r = 0), ncomplete |-> 0, ndelete |-> 0]
             created == [reqs EXCEPT ![i] = req_wrap]
         IN /\ nreqs' = i
            /\ uv_last_err' = uv_last_error(o)
            /\ uv_sendq' = IF o.r = 0 THEN uv_sendq \cup {i} ELSE uv_sendq
            /\ IF o.r # 0 THEN SendFailed(created, i, s)
                          ELSE SendStarted(created, i, s)
            /\ UNCHANGED <<proc, failed, handles, oncomplete, recvVars, binding, scenario>>

\* UDPWrap::DoSend, for Send (AF_INET) and Send6 (AF_INET6).  reqs[i] is the
\* SendWrap of the call: the socket and payload of the call (sock, payload),
\* the handle libuv got (handle), the hidden buffer value of the request
\* object (buffer), and whether uv_udp_send returned 0 (started).
DoSend(s, b, offset, length, family) ==
  /\ Idle
  /\ handles[s].state = "open"
  /\ nreqs < MaxSends
  /\ family \in Families
  /\ IF ~(offset < BufferLength(b))
       THEN /\ Abort("offset", b, offset, length)
            /\ ret' = Return("send", s, "abort", 0)
            /\ UNCHANGED <<handles, sendVars, uv_last_err, errno, recvVars, binding, scenario>>
     ELSE IF ~(length <= BufferLength(b) - offset)
       THEN /\ Abort("length", b, offset, length)
            /\ ret' = Return("send", s, "abort", 0)
            /\ UNCHANGED <<handles, sendVars, uv_last_err, errno, recvVars, binding, scenario>>
     ELSE
       \E o \in uv_udp_send(family) :
         LET i == nreqs + 1
             req_wrap == [sock |-> s, payload |-> b, handle |-> s, buffer |-> b,
                          started |-> (o.r = 0), ncomplete |-> 0, ndelete |-> 0]
             created == [reqs EXCEPT ![i] = req_wrap]
         IN /\ nreqs' = i
            /\ uv_last_err' = uv_last_error(o)
            /\ uv_sendq' = IF o.r = 0 THEN uv_sendq \cup {i} ELSE uv_sendq
            /\ IF o.r # 0 THEN SendFailed(created, i, s)
                          ELSE SendStarted(created, i, s)
            /\ UNCHANGED <<proc, failed, handles, oncomplete, recvVars, binding, scenario>>

\* An OnSend that sets the last error only after the callback has run.
OnSendArgv_Late(i, status, seen) ==
  [status |-> status, sock |-> reqs[i].sock, req |-> i, buffer |-> reqs[i].buffer,
   errno |-> errno, uv_err |-> uv_last_err', state |-> handles[reqs[i].handle].state]

\* The arguments OnSend passes to oncomplete: status, the socket object, the
\* request object and the hidden buffer value of the request object.  The
\* record also keeps what the callback can observe when it runs: the last error
\* (seen), the error libuv reported (uv_err) and the state of the socket.
OnSendArgv(i, status, seen) ==
  [status |-> status, sock |-> reqs[i].handle, req |-> i, buffer |-> reqs[i].buffer,
   errno |-> seen, uv_err |-> uv_last_err', state |-> handles[reqs[i].handle].state]

\* An OnSend that returns early, without the callback, when the transmission
\* failed.
MakeCallback_OnlyOnSuccess(rq, i, argv) ==
  IF argv.status = 0
    THEN [reqs |-> [rq EXCEPT ![i].ncomplete = @ + 1], oncomplete |-> argv]
    ELSE [reqs |-> rq, oncomplete |-> oncomplete]

\* An OnSend that skips the callback once close was called on the socket.
MakeCallback_NotAfterClose(rq, i, argv) ==
  IF argv.state = "open"
    THEN [reqs |-> [rq EXCEPT ![i].ncomplete = @ + 1], oncomplete |-> argv]
    ELSE [reqs |-> rq, oncomplete |-> oncomplete]

\* MakeCallback(req_wrap->object_, oncomplete_sym, argv): the notification is
\* delivered.
MakeCallback(rq, i, argv) ==
  [reqs |-> [rq EXCEPT ![i].ncomplete = @ + 1], oncomplete |-> argv]

\* UDPWrap::OnSend: libuv calls it once for every queued request, with the
\* status of the transmission; a non-zero status comes with the loop's last
\* error set to err.
OnSend(i, status, err) ==
  /\ Idle
  /\ i \in uv_sendq
  /\ status \in {0, -1}
  /\ err \in OsErrs
  /\ IF i \notin live
       THEN /\ Abort("req_wrap->object_", reqs[i].buffer, 0, 0)
            /\ UNCHANGED <<handles, sendVars, uv_last_err, errno, ret, recvVars, binding, scenario>>
     ELSE IF handles[reqs[i].handle].state = "closed"
       THEN /\ Abort("wrap->object_", reqs[i].buffer, 0, 0)
            /\ UNCHANGED <<handles, sendVars, uv_last_err, errno, ret, recvVars, binding, scenario>>
     ELSE
       /\ uv_sendq' = uv_sendq \ {i}
       /\ uv_last_err' = IF status # 0 THEN err ELSE uv_last_err
       /\ errno' = IF status # 0 THEN SetErrno(uv_last_err') ELSE errno
       /\ LET cb == MakeCallback(reqs, i, OnSendArgv(i, status, errno'))
              d == delete_req_wrap(cb.reqs, live, i)
          IN /\ oncomplete' = cb.oncomplete
             /\ reqs' = d.reqs
             /\ live' = d.live
       /\ UNCHANGED <<proc, failed, handles, nreqs, ret, recvVars, binding, scenario>>

\* close (HandleWrap::Close): stops receiving and starts closing the handle.
Close(s) ==
  /\ Idle
  /\ handles[s].state = "open"
  /\ handles' = [handles EXCEPT ![s] = [state |-> "closing", armed |-> FALSE]]
  /\ ret' = Return("close", s, "null", 0)
  /\ UNCHANGED <<proc, failed, sendVars, uv_last_err, errno, recvVars, binding, scenario>>

\* A close callback that does not wait for the callbacks of the queued sends.
OnClose_Early(s) ==
  /\ Idle
  /\ handles[s].state = "closing"
  /\ handles' = [handles EXCEPT ![s].state = "closed"]
  /\ UNCHANGED <<proc, failed, sendVars, uv_last_err, errno, ret, recvVars, binding, scenario>>

\* HandleWrap::OnClose: libuv's close callback, which it calls after the
\* callbacks of the handle's queued sends; the wrapper is destroyed here.
OnClose(s) ==
  /\ Idle
  /\ handles[s].state = "closing"
  /\ \A i \in uv_sendq : reqs[i].handle # s
  /\ handles' = [handles EXCEPT ![s].state = "closed"]
  /\ UNCHANGED <<proc, failed, sendVars, uv_last_err, errno, ret, recvVars, binding, scenario>>


\* ---------------------------------------------------------------- slab pool

\* An Allocate that carves from the slab whatever capacity is left.
Allocate_AlwaysSlab(p, size, id) ==
  [ptr |-> [buf |-> 0, off |-> p.offset],
   pool |-> [offset |-> p.offset + size,
             live |-> p.live \cup {[off |-> p.offset, len |-> size]}]]

\* SlabAllocator::Allocate: a region of size bytes at the write offset of the
\* shared slab (buffer 0), or, when the slab lacks the capacity, a standalone
\* buffer (buffer id) the pool does not track.
Allocate(p, size, id) ==
  IF SLAB_SIZE - p.offset >= size
    THEN [ptr |-> [buf |-> 0, off |-> p.offset],
          pool |-> [offset |-> p.offset + size,
                    live |-> p.live \cup {[off |-> p.offset, len |-> size]}]]
    ELSE [ptr |-> [buf |-> id, off |-> 0], pool |-> p]

\* A Shrink that gives back to the slab the bytes the region keeps as well.
Shrink_RewindsAll(p, ptr, size) ==
  IF ptr.buf = 0
    THEN LET r == CHOOSE x \in p.live : x.off = ptr.off
         IN [slab |-> 0,
             pool |-> [offset |-> IF r.off + r.len = p.offset
                                    THEN r.off ELSE p.offset,
                       live |-> (p.live \ {r}) \cup
                                (IF size > 0 THEN {[off |-> r.off, len |-> size]}
                                             ELSE {})]]
    ELSE [slab |-> ptr.buf, pool |-> p]

\* SlabAllocator::Shrink: the region at ptr keeps its first size bytes; the
\* bytes after them go back to the slab when the region is the last one carved.
\* Gives the parent buffer of the region.
Shrink(p, ptr, size) ==
  IF ptr.buf = 0
    THEN LET r == CHOOSE x \in p.live : x.off = ptr.off
         IN [slab |-> 0,
             pool |-> [offset |-> IF r.off + r.len = p.offset
                                    THEN r.off + size ELSE p.offset,
                       live |-> (p.live \ {r}) \cup
                                (IF size > 0 THEN {[off |-> r.off, len |-> size]}
                                             ELSE {})]]
    ELSE [slab |-> ptr.buf, pool |-> p]

\* Buffer::Data(slab): the address of the first byte of a buffer.
BufferData(slab) == [buf |-> slab, off |-> 0]

\* The application drops its last reference to a region it was given; the
\* capacity of the slab is reusable once no region of it is referenced.
Release(r) ==
  /\ Idle
  /\ r \in pool.live
  /\ LET rest == pool.live \ {r}
     IN pool' = [offset |-> IF rest = {} THEN 0 ELSE pool.offset, live |-> rest]
  /\ UNCHANGED <<proc, failed, handles, sendVars, uv_last_err, errno, ret,
                 rd, nrecv, ev, nmsgs, onmessage, stopped, binding, scenario>>

\* ------------------------------------------------------------------ receive

\* ntohs: a 16-bit value from network to host byte order.
ntohs(x) == (x % 256) * 256 + (x \div 256)

\* AddressToJS: the decoded source address object.
AddressToJS(addr) ==
  [address |-> addr.host,
   family |-> IF addr.sa_family = "AF_INET" THEN "IPv4" ELSE "IPv6",
   port |-> ntohs(addr.port)]

\* A RecvStart that treats every non-zero return as a failure.
RecvStart_NoAlready(s) ==
  /\ Idle
  /\ handles[s].state = "open"
  /\ \E o \in uv_udp_recv_start(handles[s]) :
       /\ uv_last_err' = uv_last_error(o)
       /\ handles' = [handles EXCEPT ![s].armed = @ \/ (o.r = 0)]
       /\ IF o.r # 0
            THEN /\ errno' = SetErrno(uv_last_err')
                 /\ ret' = Return("recvStart", s, "false", 0)
                 /\ stopped' = stopped
            ELSE /\ errno' = errno
                 /\ ret' = Return("recvStart", s, "true", 0)
                 /\ stopped' = [stopped EXCEPT ![s] = FALSE]
  /\ UNCHANGED <<proc, failed, sendVars, rd, nrecv, ev, nmsgs, onmessage, pool, binding, scenario>>

\* UDPWrap::RecvStart.  The handle is reading after a return of 0; it was
\* reading already when libuv reports UV_EALREADY.
RecvStart(s) ==
  /\ Idle
  /\ handles[s].state = "open"
  /\ \E o \in uv_udp_recv_start(handles[s]) :
       /\ uv_last_err' = uv_last_error(o)
       /\ handles' = [handles EXCEPT ![s].armed = @ \/ (o.r = 0)]
       /\ IF o.r # 0 /\ uv_last_err' # "UV_EALREADY"
            THEN /\ errno' = SetErrno(uv_last_err')
                 /\ ret' = Return("recvStart", s, "false", 0)
                 /\ stopped' = stopped
            ELSE /\ errno' = errno
                 /\ ret' = Return("recvStart", s, "true", 0)
                 /\ stopped' = [stopped EXCEPT ![s] = FALSE]
  /\ UNCHANGED <<proc, failed, sendVars, rd, nrecv, ev, nmsgs, onmessage, pool, binding, scenario>>

\* A RecvStop that returns 0 without stopping the handle.
RecvStop_NoStop(s) ==
  /\ Idle
  /\ handles[s].state = "open"
  /\ ret' = Return("recvStop", s, "0", 0)
  /\ stopped' = [stopped EXCEPT ![s] = TRUE]
  /\ UNCHANGED <<proc, failed, handles, sendVars, uv_last_err, errno,
                 rd, nrecv, ev, nmsgs, onmessage, pool, binding, scenario>>

\* UDPWrap::RecvStop: the handle stops reading when uv_udp_recv_stop returns 0;
\* the return value goes to the caller as it is.
RecvStop(s) ==
  /\ Idle
  /\ handles[s].state = "open"
  /\ \E o \in uv_udp_recv_stop(handles[s]) :
       /\ uv_last_err' = uv_last_error(o)
       /\ handles' = [handles EXCEPT ![s].armed = @ /\ (o.r # 0)]
       /\ ret' = Return("recvStop", s, IF o.r = 0 THEN "0" ELSE "-1", 0)
       /\ stopped' = [stopped EXCEPT ![s] = @ \/ (o.r = 0)]
  /\ UNCHANGED <<proc, failed, sendVars, errno, rd, nrecv, ev, nmsgs, onmessage, pool, binding, scenario>>

\* UDPWrap::OnAlloc: libuv asks for a buffer when a datagram is readable on a
\* handle that is reading.
OnAlloc(s, suggested_size) ==
  /\ Idle
  /\ handles[s].state = "open"
  /\ handles[s].armed
  /\ nrecv < MaxRecvs
  /\ LET a == Allocate(pool, suggested_size, nrecv + 1)
     IN /\ pool' = a.pool
        /\ rd' = [sock |-> s, base |-> a.ptr, len |-> suggested_size]
  /\ nrecv' = nrecv + 1
  /\ UNCHANGED <<proc, failed, handles, sendVars, uv_last_err, errno, ret,
                 ev, nmsgs, onmessage, stopped, binding, scenario>>

\* An OnRecv that sets the last error only after the callback has run.
OnRecvError_Late(wrap) ==
  /\ errno' = SetErrno(uv_last_err')
  /\ nmsgs' = nmsgs + 1
  /\ onmessage' = [NoMessage EXCEPT !.argc = 1, !.sock = wrap, !.errno = errno]

\* An OnRecv without the return after the error callback: the callback runs
\* again, with the arguments of a message.
OnRecvError_FallsThrough(wrap) ==
  /\ errno' = SetErrno(uv_last_err')
  /\ nmsgs' = nmsgs + 2
  /\ onmessage' = [NoMessage EXCEPT !.argc = 5, !.sock = wrap, !.errno = errno']

\* OnRecv for nread < 0: the notification carries the socket object alone, and
\* the last error is set before the callback runs.
OnRecvError(wrap) ==
  /\ errno' = SetErrno(uv_last_err')
  /\ nmsgs' = nmsgs + 1
  /\ onmessage' = [NoMessage EXCEPT !.argc = 1, !.sock = wrap, !.errno = errno']

\* An OnRecv that reports the size of the buffer as the length of the message.
OnRecvMessage_BufferLength(wrap, slab, base, nread, len, addr) ==
  /\ errno' = errno
  /\ nmsgs' = nmsgs + 1
  /\ onmessage' = [argc |-> 5, sock |-> wrap, slab |-> slab,
                   offset |-> base.off - BufferData(slab).off,
                   length |-> len, rinfo |-> AddressToJS(addr), errno |-> errno]

\* OnRecv for nread > 0: the notification carries the socket object, the slab,
\* the offset of the data in the slab, the number of bytes and the source
\* address.
OnRecvMessage(wrap, slab, base, nread, len, addr) ==
  /\ errno' = errno
  /\ nmsgs' = nmsgs + 1
  /\ onmessage' = [argc |-> 5, sock |-> wrap, slab |-> slab,
                   offset |-> base.off - BufferData(slab).off,
                   length |-> nread, rinfo |-> AddressToJS(addr), errno |-> errno]

\* An OnRecv without the early return for an empty read.
OnRecv_NoEmptyCheck(nread, addr, err) ==
  /\ proc = "running"
  /\ rd # NoRead
  /\ nread \in NReads(rd.len)
  /\ LET size == IF nread < 0 THEN 0 ELSE nread
         sh == Shrink(pool, rd.base, size)
     IN /\ pool' = sh.pool
        /\ ev' = [n |-> nrecv, sock |-> rd.sock, nread |-> nread, base |-> rd.base,
                  len |-> rd.len, shrink |-> size, addr |-> addr]
        /\ uv_last_err' = IF nread < 0 THEN err ELSE uv_last_err
        /\ IF nread < 0
             THEN OnRecvError(rd.sock)
             ELSE OnRecvMessage(rd.sock, sh.slab, rd.base, nread, rd.len, addr)
  /\ rd' = NoRead
  /\ UNCHANGED <<proc, failed, handles, sendVars, ret, nrecv, stopped, binding, scenario>>

\* An OnRecv that keeps the whole buffer when the read failed.
OnRecv_KeepsOnError(nread, addr, err) ==
  /\ proc = "running"
  /\ rd # NoRead
  /\ nread \in NReads(rd.len)
  /\ LET size == IF nread < 0 THEN rd.len ELSE nread
         sh == Shrink(pool, rd.base, size)
     IN /\ pool' = sh.pool
        /\ ev' = [n |-> nrecv, sock |-> rd.sock, nread |-> nread, base |-> rd.base,
                  len |-> rd.len, shrink |-> size, addr |-> addr]
        /\ uv_last_err' = IF nread < 0 THEN err ELSE uv_last_err
        /\ IF nread = 0
             THEN UNCHANGED <<errno, nmsgs, onmessage>>
           ELSE IF nread < 0
             THEN OnRecvError(rd.sock)
             ELSE OnRecvMessage(rd.sock, sh.slab, rd.base, nread, rd.len, addr)
  /\ rd' = NoRead
  /\ UNCHANGED <<proc, failed, handles, sendVars, ret, nrecv, stopped, binding, scenario>>

\* UDPWrap::OnRecv: libuv hands over the result of the read into the buffer
\* OnAlloc gave it; a negative nread comes with the loop's last error set to
\* err.  ev keeps the event: its number, the socket, nread, the buffer and its
\* size, the size passed to Shrink and the wire address of the sender.
OnRecv(nread, addr, err) ==
  /\ proc = "running"
  /\ rd # NoRead
  /\ nread \in NReads(rd.len)
  /\ LET size == IF nread < 0 THEN 0 ELSE nread
         sh == Shrink(pool, rd.base, size)
     IN /\ pool' = sh.pool
        /\ ev' = [n |-> nrecv, sock |-> rd.sock, nread |-> nread, base |-> rd.base,
                  len |-> rd.len, shrink |-> size, addr |-> addr]
        /\ uv_last_err' = IF nread < 0 THEN err ELSE uv_last_err
        /\ IF nread = 0
             THEN UNCHANGED <<errno, nmsgs, onmessage>>
           ELSE IF nread < 0
             THEN OnRecvError(rd.sock)
             ELSE OnRecvMessage(rd.sock, sh.slab, rd.base, nread, rd.len, addr)
  /\ rd' = NoRead
  /\ UNCHANGED <<proc, failed, handles, sendVars, ret, nrecv, stopped, binding, scenario>>

\* --------------------------------------------------- bind, options, address

\* A uv_udp_bind that binds again a handle that is bound to the other family.
uv_udp_bind_Rebinds(b, family, address) ==
  {[r |-> 0, err |-> "UV_OK", binding |-> [family |-> family, address |-> address]]}
  \cup {[r |-> -1, err |-> e, binding |-> b] : e \in OsErrs}

\* uv_udp_bind / uv_udp_bind6 on a handle whose binding is b: 0 and the handle
\* is bound to the address, or -1 and the binding is as before.  A handle bound
\* to one family rejects a bind to the other one with BIND_CONFLICT; a bind to
\* the family it has may replace the address.
uv_udp_bind(b, family, address) ==
  IF b # Unbound /\ b.family # family
    THEN {[r |-> -1, err |-> BIND_CONFLICT, binding |-> b]}
    ELSE {[r |-> 0, err |-> "UV_OK",
           binding |-> [family |-> family, address |-> address]]}
         \cup {[r |-> -1, err |-> e, binding |-> b] : e \in OsErrs}

\* uv_udp_set_ttl, uv_udp_set_broadcast, uv_udp_set_multicast_ttl,
\* uv_udp_set_multicast_loop and uv_udp_set_membership: 0, or -1 with the
\* loop's last error set.
uv_udp_set(h) ==
  {[r |-> 0, err |-> "UV_OK"]} \cup {[r |-> -1, err |-> e] : e \in OsErrs}

\* uv_udp_getsockname: fails on a handle that is not bound.
uv_udp_getsockname(b) ==
  IF b = Unbound
    THEN {[r |-> -1, err |-> "UV_EINVAL"]}
    ELSE {[r |-> 0, err |-> "UV_OK"]} \cup {[r |-> -1, err |-> e] : e \in OsErrs}

\* The method that calls DoBind with the family: bind or bind6.
BindName(family) == IF family = "AF_INET" THEN "bind" ELSE "bind6"

\* A DoBind that forgets SetErrno on the failure path.
DoBind_NoSetErrno(s, family, address) ==
  /\ Idle
  /\ handles[s].state = "open"
  /\ family \in Families
  /\ \E o \in uv_udp_bind(binding[s], family, address) :
       /\ binding' = [binding EXCEPT ![s] = o.binding]
       /\ uv_last_err' = uv_last_error(o)
       /\ errno' = errno
       /\ ret' = Return(BindName(family), s, IF o.r = 0 THEN "0" ELSE "-1", 0)
  /\ UNCHANGED <<proc, failed, handles, sendVars, recvVars, scenario>>

\* A DoBind that calls SetErrno whatever uv_udp_bind returned.
DoBind_AlwaysSetErrno(s, family, address) ==
  /\ Idle
  /\ handles[s].state = "open"
  /\ family \in Families
  /\ \E o \in uv_udp_bind(binding[s], family, address) :
       /\ binding' = [binding EXCEPT ![s] = o.binding]
       /\ uv_last_err' = uv_last_error(o)
       /\ errno' = SetErrno(uv_last_err')
       /\ ret' = Return(BindName(family), s, IF o.r = 0 THEN "0" ELSE "-1", 0)
  /\ UNCHANGED <<proc, failed, handles, sendVars, recvVars, scenario>>

\* UDPWrap::DoBind, for Bind (AF_INET) and Bind6 (AF_INET6): the address and
\* port go to uv_udp_bind of the family (address stands for both, and for the
\* flags), the last error is set when it returns non-zero, and its return
\* value goes to the caller.
DoBind(s, family, address) ==
  /\ Idle
  /\ handles[s].state = "open"
  /\ family \in Families
  /\ \E o \in uv_udp_bind(binding[s], family, address) :
       /\ binding' = [binding EXCEPT ![s] = o.binding]
       /\ uv_last_err' = uv_last_error(o)
       /\ errno' = IF o.r # 0 THEN SetErrno(uv_last_err') ELSE errno
       /\ ret' = Return(BindName(family), s, IF o.r = 0 THEN "0" ELSE "-1", 0)
  /\ UNCHANGED <<proc, failed, handles, sendVars, recvVars, scenario>>

\* The X(name, fn) methods: setTTL, setBroadcast, setMulticastTTL and
\* setMulticastLoopback.
SetOption(s, name, flag) ==
  /\ Idle
  /\ handles[s].state = "open"
  /\ name \in OptionNames
  /\ \E o \in uv_udp_set(handles[s]) :
       /\ uv_last_err' = uv_last_error(o)
       /\ errno' = IF o.r # 0 THEN SetErrno(uv_last_err') ELSE errno
       /\ ret' = Return(name, s, IF o.r = 0 THEN "0" ELSE "-1", 0)
  /\ UNCHANGED <<proc, failed, handles, sendVars, recvVars, binding, scenario>>

\* UDPWrap::SetMembership, for AddMembership (UV_JOIN_GROUP) and DropMembership
\* (UV_LEAVE_GROUP).
SetMembership(s, membership) ==
  /\ Idle
  /\ handles[s].state = "open"
  /\ membership \in Memberships
  /\ \E o \in uv_udp_set(handles[s]) :
       /\ uv_last_err' = uv_last_error(o)
       /\ errno' = IF o.r # 0 THEN SetErrno(uv_last_err') ELSE errno
       /\ ret' = Return(membership, s, IF o.r = 0 THEN "0" ELSE "-1", 0)
  /\ UNCHANGED <<proc, failed, handles, sendVars, recvVars, binding, scenario>>

\* UDPWrap::GetSockName: null and the last error set when uv_udp_getsockname
\* returns non-zero, the address object otherwise.
GetSockName(s) ==
  /\ Idle
  /\ handles[s].state = "open"
  /\ \E o \in uv_udp_getsockname(binding[s]) :
       /\ uv_last_err' = uv_last_error(o)
       /\ errno' = IF o.r # 0 THEN SetErrno(uv_last_err') ELSE errno
       /\ ret' = Return("getsockname", s, IF o.r = 0 THEN binding[s].address ELSE "null", 0)
  /\ UNCHANGED <<proc, failed, handles, sendVars, recvVars, binding, scenario>>

\* ------------------------------------------------------------ specification

\* The offset and length arguments the asserts of send accept.
SendArgs(b) ==
  {a \in ArgRange \X ArgRange :
     a[1] < BufferLength(b) /\ a[2] <= BufferLength(b) - a[1]}

\* Every pair of offset and length arguments.
AnyArgs(b) == ArgRange \X ArgRange

\* send, with any arguments or with arguments its asserts accept, and the
\* completions libuv reports.
SendSide(any) ==
  \/ \E s \in Socks, b \in Buffers, f \in Families :
       \E a \in (IF any THEN AnyArgs(b) ELSE SendArgs(b)) : DoSend(s, b, a[1], a[2], f)
  \/ \E i \in ReqIds, status \in {0, -1}, err \in OsErrs : OnSend(i, status, err)

\* recvStart, recvStop, the reads libuv reports and the regions the
\* application gives back.
RecvSide ==
  \/ \E s \in Socks : RecvStart(s)
  \/ \E s \in Socks : RecvStop(s)
  \/ \E s \in Socks, n \in SuggestedSizes : OnAlloc(s, n)
  \/ \E nread \in NReads(rd.len), addr \in Peers, err \in OsErrs : OnRecv(nread, addr, err)
  \/ \E r \in pool.live : Release(r)

\* close and the close callback.
Lifecycle ==
  \/ \E s \in Socks : Close(s)
  \/ \E s \in Socks : OnClose(s)

\* The sending half of the wrapper: send is called with arguments its asserts
\* accept.
SendNext == SendSide(FALSE) \/ Lifecycle

SendSpec == Init /\ [][SendNext]_vars

\* libuv reports the completion of every request it has queued.
SendFairness ==
  \A i \in ReqIds : WF_vars(\E status \in {0, -1}, err \in OsErrs : OnSend(i, status, err))

FairSendSpec == SendSpec /\ SendFairness

\* The sending half when send is called with any offset and length.
SendAnyNext == SendSide(TRUE) \/ Lifecycle

FairSendAnySpec == Init /\ [][SendAnyNext]_vars /\ SendFairness

\* The receiving half of the wrapper.
RecvNext == RecvSide \/ Lifecycle

RecvSpec == Init /\ [][RecvNext]_vars

\* bind, the socket options, the memberships and getsockname.
ConfigSide ==
  \/ \E s \in Socks, f \in Families, a \in BindAddresses : DoBind(s, f, a)
  \/ \E s \in Socks, name \in OptionNames, flag \in Flags : SetOption(s, name, flag)
  \/ \E s \in Socks, m \in Memberships : SetMembership(s, m)
  \/ \E s \in Socks : GetSockName(s)

\* The configuration of sockets: binding, options and the local address.
ConfigNext == ConfigSide \/ Lifecycle

ConfigSpec == Init /\ [][ConfigNext]_vars

\* What one run uses the sockets for.
Scenarios == {"send", "receive", "configure"}

\* Every operation of the wrapper: a run sends, receives or configures.
WrapNext ==
  \/ scenario = "send" /\ SendNext
  \/ scenario = "receive" /\ RecvNext
  \/ scenario = "configure" /\ ConfigNext

WrapInit == Start /\ scenario \in Scenarios

WrapSpec == WrapInit /\ [][WrapNext]_vars

\* ------------------------------------------------------------------- claims

\* The requests created so far.
Created == 1..nreqs

\* A libuv error code and the last error SetErrno must store for it.
Translated == {<<"UV_EINVAL", "EINVAL">>, <<"UV_ECONNREFUSED", "ECONNREFUSED">>}

\* C1, as stated: for every (offset, length, payload) with offset + length <=
\* payload.size(), a call of send returns a handle or returns null (never
\* neither).
C1_SendReturnsForEveryTripleInRange ==
  ~(/\ proc = "aborted"
    /\ ret = Return("send", ret.sock, "abort", 0)
    /\ failed.offset + failed.length <= BufferLength(failed.buf))

\* C1, amended: for every (offset, length, payload) with offset < payload.size()
\* and length <= payload.size() - offset, a call of send returns; it returns
\* either the handle of a request whose transmission started, and then exactly
\* one completion notification is eventually delivered for that request (unless
\* a failed assert aborts the process first), referencing the payload of the
\* call, or null, and then no completion notification is ever delivered for it.
C1_SendOutcome ==
  /\ [](ret = Return("send", ret.sock, "abort", 0) =>
          ~(/\ failed.offset < BufferLength(failed.buf)
            /\ failed.length <= BufferLength(failed.buf) - failed.offset))
  /\ [][nreqs' = nreqs + 1 =>
          \/ /\ ret' = Return("send", reqs'[nreqs'].sock, "handle", nreqs')
             /\ reqs'[nreqs'].started
             /\ nreqs' \in uv_sendq'
          \/ /\ ret' = Return("send", reqs'[nreqs'].sock, "null", 0)
             /\ ~reqs'[nreqs'].started
             /\ nreqs' \notin uv_sendq']_vars
  /\ [](\A i \in Created :
          /\ reqs[i].ncomplete <= (IF reqs[i].started THEN 1 ELSE 0)
          /\ oncomplete.req = i => oncomplete.buffer = reqs[i].payload)
  /\ \A i \in ReqIds :
       (i \in Created /\ reqs[i].started) ~> (reqs[i].ncomplete = 1 \/ proc = "aborted")

\* Of two sends with arguments the asserts accept, one failed to start and got
\* no notification, the other returned a handle and got its one notification.
C1_Witness ==
  \E i, j \in Created :
    /\ reqs[i].started /\ reqs[i].ncomplete = 1 /\ oncomplete.req = i
    /\ oncomplete.buffer = reqs[i].payload
    /\ ~reqs[j].started /\ reqs[j].ncomplete = 0
    /\ proc = "running"

\* C2: when the transmit call of send fails to start, the request created for
\* the call is destroyed before send returns, the last error is the translated
\* error of the failure, send returns null, and OnSend is never invoked for the
\* request: it is not queued, and no completion is ever counted for it.
C2_FailedSendIsSynchronous ==
  /\ [][(nreqs' = nreqs + 1 /\ ~reqs'[nreqs'].started) =>
          /\ ret' = Return("send", reqs'[nreqs'].sock, "null", 0)
          /\ <<uv_last_err', errno'>> \in Translated
          /\ reqs'[nreqs'].ndelete = 1
          /\ nreqs' \notin live'
          /\ nreqs' \notin uv_sendq']_vars
  /\ [](\A i \in Created :
          ~reqs[i].started =>
            /\ reqs[i].ncomplete = 0
            /\ reqs[i].ndelete = 1
            /\ i \notin live
            /\ i \notin uv_sendq
            /\ oncomplete.req # i)

\* A send failed to start and returned null, with the last error set.
C2_Witness ==
  \E i \in Created :
    /\ ~reqs[i].started
    /\ ret = Return("send", reqs[i].sock, "null", 0)
    /\ <<uv_last_err, errno>> \in Translated

\* C3: the live Send Requests are exactly the successfully started sends whose
\* completion has not been reported; a request is destroyed once, and a started
\* request only with its single completion.
C3_LiveRequests ==
  /\ live = {i \in Created : reqs[i].started /\ reqs[i].ncomplete = 0}
  /\ uv_sendq \subseteq live
  /\ \A i \in Created :
       /\ reqs[i].ndelete <= 1
       /\ reqs[i].ncomplete <= 1
       /\ reqs[i].started => reqs[i].ndelete = reqs[i].ncomplete
       /\ i \in live <=> reqs[i].ndelete = 0

\* One started request is still live and another was completed and destroyed.
C3_Witness ==
  \E i, j \in Created :
    /\ i \in live /\ reqs[i].ndelete = 0
    /\ reqs[j].started /\ reqs[j].ncomplete = 1 /\ reqs[j].ndelete = 1 /\ j \notin live

\* C4: a send-completion notification carries the status, the socket the send
\* was issued on, the request handle that send returned and the payload passed
\* to it; when the status is non-zero the callback sees the last error set to
\* the translated error of the completion.
C4_CompletionArguments ==
  oncomplete.req # 0 =>
    /\ oncomplete.req \in Created
    /\ reqs[oncomplete.req].started
    /\ oncomplete.sock = reqs[oncomplete.req].sock
    /\ oncomplete.buffer = reqs[oncomplete.req].payload
    /\ oncomplete.status \in {0, -1}
    /\ oncomplete.status # 0 => <<oncomplete.uv_err, oncomplete.errno>> \in Translated

\* A completion with a non-zero status was delivered for a send on socket B
\* with payload b2, and its callback saw the last error EINVAL; another send
\* had failed to start.
C4_Witness ==
  /\ oncomplete.req # 0
  /\ oncomplete.status # 0
  /\ oncomplete.sock = "B"
  /\ oncomplete.buffer = "b2"
  /\ oncomplete.errno = "EINVAL"
  /\ \E i \in Created : ~reqs[i].started

\* C5: close does not cancel or drop the requests already dispatched: the call
\* leaves every request and libuv's queue as they are, and every request that
\* is in flight on a socket that close was called on still gets its completion
\* notification, exactly once.
C5_CompletionAfterClose ==
  /\ [][(\E s \in Socks : handles[s].state = "open" /\ handles'[s].state # "open") =>
          UNCHANGED <<reqs, live, uv_sendq>>]_vars
  /\ [](\A i \in Created : reqs[i].ncomplete <= 1)
  /\ \A i \in ReqIds :
       (/\ i \in Created
        /\ reqs[i].started
        /\ reqs[i].ncomplete = 0
        /\ handles[reqs[i].sock].state # "open")
         ~> (reqs[i].ncomplete = 1 /\ i \notin live)

\* A completion was delivered, once, for a request whose socket was closing.
C5_Witness ==
  /\ oncomplete.req # 0
  /\ oncomplete.state = "closing"
  /\ reqs[oncomplete.req].ncomplete = 1
  /\ handles[oncomplete.sock].state # "open"

\* The step is a receive event: OnRecv handled the result of a read.
RecvEvent == ev'.n # ev.n

\* The region of the slab pool that starts at ptr is empty: no byte of the
\* shared slab is held for it.
Empty(p, ptr) ==
  ptr.buf = 0 => /\ \A r \in p.live : r.off # ptr.off
                 /\ p.offset <= ptr.off

\* C6: for a receive event with nread = 0 no receive notification is
\* delivered, the last error is not modified, and the buffer allocated for the
\* read is shrunk to zero bytes.
C6_EmptyRead ==
  [][(RecvEvent /\ ev'.nread = 0) =>
       /\ nmsgs' = nmsgs
       /\ onmessage' = onmessage
       /\ errno' = errno
       /\ ev'.shrink = 0
       /\ Empty(pool', ev'.base)]_vars

\* An empty read followed the delivery of a message; the message is still the
\* last notification.
C6_Witness ==
  /\ ev.n = 2
  /\ ev.nread = 0
  /\ nmsgs = 1
  /\ onmessage.argc = 5
  /\ rd = NoRead

\* C7: for a receive event with nread < 0 exactly one receive notification is
\* delivered; it carries the socket reference and nothing else, and the last
\* error is set to the translated error before the callback runs.
C7_ErrorRead ==
  [][(RecvEvent /\ ev'.nread < 0) =>
       /\ nmsgs' = nmsgs + 1
       /\ onmessage' = [NoMessage EXCEPT !.argc = 1, !.sock = ev'.sock,
                                         !.errno = onmessage'.errno]
       /\ <<uv_last_err', onmessage'.errno>> \in Translated
       /\ errno' = onmessage'.errno]_vars

\* The second read, on socket B, failed: its notification is the second one
\* delivered, carries the socket alone and sees the last error EINVAL.
C7_Witness ==
  /\ ev.n = 2
  /\ ev.nread < 0
  /\ ev.sock = "B"
  /\ nmsgs = 2
  /\ onmessage.argc = 1
  /\ onmessage.sock = "B"
  /\ onmessage.errno = "EINVAL"
  /\ errno = "EINVAL"

\* The address object of a wire address.
Decoded ==
  {<<[sa_family |-> "AF_INET", host |-> <<127, 0, 0, 1>>, port |-> 4660],
     [address |-> <<127, 0, 0, 1>>, family |-> "IPv4", port |-> 13330]>>}

\* C8: for a receive event with nread > 0 exactly one receive notification is
\* delivered; it carries the socket reference, the parent buffer of the region,
\* the offset of the region in that buffer, a length equal to nread and never
\* more than the size allocated, and the decoded source address.
C8_MessageRead ==
  [][(RecvEvent /\ ev'.nread > 0) =>
       /\ nmsgs' = nmsgs + 1
       /\ onmessage'.argc = 5
       /\ onmessage'.sock = ev'.sock
       /\ onmessage'.slab = ev'.base.buf
       /\ onmessage'.offset = ev'.base.off
       /\ onmessage'.length = ev'.nread
       /\ onmessage'.length <= ev'.len
       /\ <<ev'.addr, onmessage'.rinfo>> \in Decoded
       /\ ev'.base.buf = 0 =>
            /\ [off |-> onmessage'.offset, len |-> onmessage'.length] \in pool'.live
            /\ onmessage'.offset + onmessage'.length <= SLAB_SIZE]_vars

\* A one-byte datagram was delivered from a region that does not start at the
\* beginning of the slab.
C8_Witness ==
  /\ ev.n = 2
  /\ ev.nread = 1
  /\ ev.len > 1
  /\ onmessage.argc = 5
  /\ onmessage.slab = 0
  /\ onmessage.offset > 0
  /\ onmessage.length = 1
  /\ nmsgs = 2

\* C9: recvStart called again after a recvStart that succeeded, with no
\* recvStop in between, returns success again, leaves the socket armed as it
\* was and does not set the last error.
C9_RecvStartIdempotent ==
  [][\A s \in Socks :
       (ret = Return("recvStart", s, "true", 0) /\ RecvStart(s)) =>
         /\ handles[s].armed
         /\ ret' = Return("recvStart", s, "true", 0)
         /\ handles' = handles
         /\ stopped' = stopped
         /\ errno' = errno]_vars

\* recvStart was called on a socket that was reading: libuv reported
\* UV_EALREADY, the call returned true and the last error is not EALREADY.
C9_Witness ==
  \E s \in Socks :
    /\ ret = Return("recvStart", s, "true", 0)
    /\ uv_last_err = "UV_EALREADY"
    /\ handles[s].armed
    /\ errno # "EALREADY"

\* C10: after recvStop returned 0 on a socket and until recvStart succeeds on
\* it again, no read is started on the socket and no receive notification is
\* delivered for it.
C10_NoDeliveryAfterRecvStop ==
  /\ [](\A s \in Socks : stopped[s] => rd.sock # s)
  /\ [][\A s \in Socks :
          (stopped[s] /\ stopped'[s]) =>
            /\ rd'.sock # s
            /\ RecvEvent => ev'.sock # s
            /\ nmsgs' # nmsgs => onmessage'.sock # s]_vars

\* recvStop has just returned 0 on socket A, on which a message had been
\* delivered; socket B is reading and libuv can still report reads.
C10_Witness ==
  /\ ret = Return("recvStop", "A", "0", 0)
  /\ stopped["A"]
  /\ nmsgs = 1
  /\ onmessage.sock = "A"
  /\ onmessage.argc = 5
  /\ handles["B"].armed
  /\ nrecv < MaxRecvs

\* C11: a bind of a socket that is bound to one family, asking for the other
\* family, fails: it returns non-zero, the last error is the translated
\* bind-conflict error, and the family and address the socket is bound to are
\* as before the call.
C11_BindOtherFamily ==
  [][\A s \in Socks, f \in Families, a \in BindAddresses :
       (DoBind(s, f, a) /\ binding[s] # Unbound /\ binding[s].family # f) =>
         /\ ret' = Return(BindName(f), s, "-1", 0)
         /\ uv_last_err' = BIND_CONFLICT
         /\ <<BIND_CONFLICT, errno'>> \in Translated
         /\ binding'[s] = binding[s]]_vars

\* A socket bound to AF_INET on which bind6 has just failed with the conflict.
C11_Witness ==
  \E s \in Socks :
    /\ ret = Return("bind6", s, "-1", 0)
    /\ binding[s].family = "AF_INET"
    /\ uv_last_err = BIND_CONFLICT
    /\ errno = "EINVAL"

\* C12: a bind of an unbound socket either fails, returning non-zero with the
\* last error set to the translation of libuv's error and the socket still
\* unbound, or succeeds, returning zero with the socket bound to the family
\* and address of the call.
C12_BindUnbound ==
  [][\A s \in Socks, f \in Families, a \in BindAddresses :
       (DoBind(s, f, a) /\ binding[s] = Unbound) =>
         \/ /\ ret' = Return(BindName(f), s, "-1", 0)
            /\ <<uv_last_err', errno'>> \in Translated
            /\ binding'[s] = Unbound
         \/ /\ ret' = Return(BindName(f), s, "0", 0)
            /\ errno' = errno
            /\ binding'[s] = [family |-> f, address |-> a]]_vars

\* One socket is bound, and a bind of the other one, unbound, has just failed.
C12_Witness ==
  /\ binding["A"] # Unbound
  /\ ret = Return("bind", "B", "-1", 0)
  /\ binding["B"] = Unbound
  /\ errno = "ECONNREFUSED"

\* Two regions of the shared slab have no byte in common.
Disjoint(a, b) == a.off + a.len <= b.off \/ b.off + b.len <= a.off

\* C13: whatever the sockets sharing the pool read and whatever the
\* application gives back, the live regions of the slab never overlap: they
\* are pairwise disjoint and inside the slab, and a region OnAlloc gets from
\* the slab is disjoint from every region that is live at that time.
C13_NoOverlap ==
  /\ [](\A a, b \in pool.live :
          /\ a # b => Disjoint(a, b)
          /\ a.len > 0 /\ a.off >= 0 /\ a.off + a.len <= SLAB_SIZE)
  /\ [][(nrecv' # nrecv /\ rd'.base.buf = 0) =>
          /\ [off |-> rd'.base.off, len |-> rd'.len] \in pool'.live
          /\ \A r \in pool.live :
                Disjoint([off |-> rd'.base.off, len |-> rd'.len], r)]_vars

\* Two regions of the slab are live at once, the second one carved while the
\* first was held.
C13_Witness ==
  /\ Cardinality(pool.live) = 2
  /\ nrecv = 2
  /\ ev.base.buf = 0

\* C14: a request for more bytes than the slab has left is served, not
\* refused: OnAlloc gets a standalone buffer of the requested size that is no
\* part of the slab and is not the buffer of the read before, and the write offset
\* and the live regions of the slab are as before, both after the allocation
\* and after the read that used the buffer.
C14_StandaloneBuffer ==
  /\ [][\A s \in Socks, n \in SuggestedSizes :
          (OnAlloc(s, n) /\ n > SLAB_SIZE - pool.offset) =>
            /\ rd'.sock = s
            /\ rd'.len = n
            /\ rd'.base.buf # 0
            /\ rd'.base.buf # ev.base.buf
            /\ pool' = pool]_vars
  /\ [][(RecvEvent /\ ev'.base.buf # 0) => pool' = pool]_vars

\* A read into a standalone buffer is in progress while a region of the slab
\* is live.
C14_Witness ==
  /\ rd.base.buf # 0
  /\ rd.len = SLAB_SIZE
  /\ pool.live # {}
  /\ pool.offset > 0

\* A call of bind, an option setter, a membership method, send, recvStart,
\* recvStop or getsockname.
Call ==
  \/ ConfigSide
  \/ \E s \in Socks, b \in Buffers, f \in Families :
       \E a \in SendArgs(b) : DoSend(s, b, a[1], a[2], f)
  \/ \E s \in Socks : RecvStart(s)
  \/ \E s \in Socks : RecvStop(s)

\* What a call that failed returns: a non-zero integer, null or false.
FailureValues == {"-1", "null", "false"}

\* C15, as stated: every call of bind, an option setter, a membership method,
\* send, recvStart, recvStop or getsockname that fails has set the last error,
\* to the translation of the error libuv reported, when it returns.
C15_LastErrorSetOnEveryFailure ==
  [][(ret'.val \in FailureValues /\ Call) =>
       <<uv_last_err', errno'>> \in Translated]_vars

\* C20: the last error is written on failure paths only.  A step that changes
\* it is no call of bind, an option setter, a membership method, send,
\* recvStart, recvStop or getsockname that succeeds, no send completion with
\* status 0 and no receive event with nread >= 0: it is a failed call other
\* than recvStop, a send completion with a non-zero status or a receive event
\* with nread < 0.
C20_LastErrorOnlyOnFailure ==
  [][errno' # errno =>
       /\ ~(ret'.val \notin FailureValues /\ Call)
       /\ ~(\E i \in ReqIds, err \in OsErrs : OnSend(i, 0, err))
       /\ ~(RecvEvent /\ ev'.nread >= 0)
       /\ \/ ret'.val \in FailureValues /\ ret'.op # "recvStop" /\ Call
          \/ \E i \in ReqIds, err \in OsErrs : OnSend(i, -1, err)
          \/ RecvEvent /\ ev'.nread < 0]_vars

\* A bind has just succeeded while the last error holds the error of an
\* earlier failure.
C20_Witness ==
  \E s \in Socks :
    /\ ret = Return("bind", s, "0", 0)
    /\ binding[s] # Unbound
    /\ errno = "ECONNREFUSED"
    /\ uv_last_err = "UV_ECONNREFUSED"

\* C16: a send whose offset is not below the length of the payload, or whose
\* length exceeds what the payload has after the offset, ends in the call: the
\* failed assert aborts the process before a SendWrap is created and before
\* uv_udp_send is called, the last error and the notifications delivered are
\* as before, and nothing runs after the abort, so no completion is ever
\* delivered for the call.
C16_InvalidRangeAborts ==
  /\ [][\A s \in Socks, b \in Buffers, f \in Families : \A a \in AnyArgs(b) :
          (DoSend(s, b, a[1], a[2], f) /\ a \notin SendArgs(b)) =>
            /\ proc' = "aborted"
            /\ failed' = [assert |-> IF a[1] < BufferLength(b) THEN "length" ELSE "offset",
                          buf |-> b, offset |-> a[1], length |-> a[2]]
            /\ UNCHANGED <<reqs, nreqs, live, uv_sendq, oncomplete, uv_last_err, errno>>]_vars
  /\ [][proc = "running"]_vars

\* A send with a length beyond the payload has aborted the process while an
\* earlier send is queued.
C16_Witness ==
  /\ proc = "aborted"
  /\ failed.assert = "length"
  /\ ret.val = "abort"
  /\ nreqs = 1
  /\ uv_sendq = {1}

\* C17: receive notifications come in the order of the reads.  A notification
\* is delivered inside the receive event of its datagram, which is the read
\* started last and the one after the event handled before; it is delivered
\* for the socket of that read, and an event delivers one notification at
\* most, so there are never more notifications than events.
C17_NotificationsInReadOrder ==
  /\ [][nmsgs' # nmsgs =>
          /\ RecvEvent
          /\ nmsgs' = nmsgs + 1
          /\ ev'.n = nrecv
          /\ ev'.n = ev.n + 1
          /\ rd.sock = ev'.sock
          /\ onmessage'.sock = ev'.sock]_vars
  /\ [][nrecv' # nrecv => ev.n = nrecv /\ nrecv' = nrecv + 1]_vars
  /\ [](nmsgs <= ev.n /\ ev.n <= nrecv)

\* Two reads have each delivered their notification, the second one for data
\* behind the first region of the slab, which is still live.
C17_Witness ==
  /\ nmsgs = 2
  /\ ev.n = 2
  /\ onmessage.sock = ev.sock
  /\ \E r \in pool.live : r.off = 0 /\ onmessage.offset > 0

\* C18: the asserts of OnSend never fail.  Every request libuv has queued
\* still has its SendWrap, and the wrapper of its socket is not destroyed,
\* whether or not close was called on the socket; so no completion finds the
\* request object or the socket object gone.
C18_OnSendAssertsHold ==
  /\ failed.assert \notin {"req_wrap->object_", "wrap->object_"}
  /\ \A i \in uv_sendq :
       /\ i \in live
       /\ reqs[i].ndelete = 0
       /\ handles[reqs[i].handle].state # "closed"

\* A completion was delivered after close was called on its socket, and the
\* wrapper of the socket was destroyed after it.
C18_Witness ==
  /\ proc = "running"
  /\ oncomplete.req # 0
  /\ oncomplete.state = "closing"
  /\ handles[oncomplete.sock].state = "closed"
  /\ reqs[oncomplete.req].ncomplete = 1

\* C19: every buffer OnAlloc hands out is shrunk once, by the receive event of
\* its read.  The event shrinks the buffer of the read in progress, to nread
\* bytes when nread >= 0 and to 0 bytes when nread < 0, and ends the read; when
\* its notification is delivered the pool holds the shrunk region, the first
\* nread bytes after a message and nothing of the buffer after an error or an
\* empty read.  A buffer leaves the read in progress in no other way, and
\* every read started has had its event, but for the one in progress.
C19_ShrinkOncePerBuffer ==
  /\ [][RecvEvent =>
          /\ rd # NoRead /\ rd' = NoRead
          /\ ev'.sock = rd.sock /\ ev'.base = rd.base /\ ev'.len = rd.len
          /\ ev'.shrink = (IF ev'.nread < 0 THEN 0 ELSE ev'.nread)
          /\ pool' = Shrink(pool, rd.base, ev'.shrink).pool
          /\ (ev'.nread <= 0 => Empty(pool', ev'.base))
          /\ (ev'.nread > 0 /\ ev'.base.buf = 0 =>
                /\ [off |-> ev'.base.off, len |-> ev'.nread] \in pool'.live
                /\ pool'.offset = ev'.base.off + ev'.nread)]_vars
  /\ [][rd' # rd => \/ rd = NoRead /\ nrecv' = nrecv + 1
                    \/ rd' = NoRead /\ RecvEvent]_vars
  /\ [](ev.n = (IF rd = NoRead THEN nrecv ELSE nrecv - 1))

\* A read into a region of the slab has ended in an error while a region of an
\* earlier message is live: the pool has the whole region of the read back.
C19_Witness ==
  /\ ev.n = 2
  /\ ev.nread < 0
  /\ ev.shrink = 0
  /\ ev.base.buf = 0
  /\ ev.base.off > 0
  /\ pool.offset = ev.base.off
  /\ Cardinality(pool.live) = 1

====
